---------------------------- MODULE Spec2Model ----------------------------
(***************************************************************************)
(* A model of the RPC file server of 15440-p1/cp2/server.c: the listener   *)
(* (main), the per-connection handler process (the forked child running    *)
(* serve in a loop), the frame reader (receiveAll) and the nine operation  *)
(* handlers (serveOpen .. serveGetdirtree).  Frames are sequences of bytes *)
(* (0..255); integers are marshalled little-endian with the widths of the  *)
(* 64-bit build the code is written for.                                   *)
(***************************************************************************)
EXTENDS Integers, Sequences, FiniteSets, TLC

(***************************************************************************)
(* Bounds of the model.                                                    *)
(***************************************************************************)
\* connections the clients open during a run
MaxConn == 2
\* request frames the clients send during a run, over all connections
MaxReq == 2
\* bytes a local read or getdirentries finds to return
MaxData == 2
\* times the transport delivers less than what is in flight during a run
MaxFrag == 1
\* connections alive at a time (connected, and the handler has not ended)
MaxLive == 1

(***************************************************************************)
(* Program constants.                                                      *)
(***************************************************************************)
MAXMSGLEN == 200
\* sizeof(int)*2: the request header, op_id and payload_len
HeaderLen == 8
\* sizeof(int), sizeof(mode_t)
IntSize == 4
\* sizeof(size_t), sizeof(ssize_t), sizeof(off_t)
LongSize == 8
\* sizeof(struct stat) on 64-bit Linux
StatSize == 144
\* the listening socket's descriptor in the listener (0, 1, 2 are the standard streams)
ListenFd == 3
\* error numbers of <errno.h>
ENOENT == 2
EBADF == 9
EINVAL == 22
ENOMEM == 12
\* signal numbers of <signal.h>; a process a signal kills ends with status 128 + signal
SIGSEGV == 11
SIGPIPE == 13

Conns == 1..MaxConn
Bytes == 0..255
\* the values the model draws for a byte whose content the program never set
StaleBytes == {0, 255}
\* a 64-bit value outside the 31 bits the model computes with
Huge == 2147483646 + 1

(***************************************************************************)
(* Marshalling: memcpy of an integer into, and a cast out of, a byte       *)
(* buffer on a little-endian host.                                         *)
(***************************************************************************)
\* the w bytes (w = 4 or 8) of the two's complement integer n
LE(n, w) ==
    [i \in 1..w |-> IF i <= 4 THEN (n \div (256 ^ (i - 1))) % 256
                    ELSE IF n < 0 THEN 255 ELSE 0]

\* *(int*)b: the signed 32-bit value of 4 bytes
Int32(b) ==
    b[1] + 256 * b[2] + 65536 * b[3]
      + 16777216 * (IF b[4] >= 128 THEN b[4] - 256 ELSE b[4])

\* *(size_t*)b: the unsigned 64-bit value of 8 bytes, Huge when it needs more than 31 bits
UInt64(b) ==
    IF b[4] < 128 /\ \A i \in 5..8 : b[i] = 0 THEN Int32(SubSeq(b, 1, 4)) ELSE Huge

\* *(ssize_t*)b, *(off_t*)b: the signed 64-bit value of 8 bytes
Int64(b) ==
    IF b[4] < 128 /\ \A i \in 5..8 : b[i] = 0 THEN Int32(SubSeq(b, 1, 4))
    ELSE IF b[4] >= 128 /\ \A i \in 5..8 : b[i] = 255 THEN Int32(SubSeq(b, 1, 4))
    ELSE Huge

Min(a, b) == IF a < b THEN a ELSE b
Max(a, b) == IF a > b THEN a ELSE b
Fill(n, v) == [i \in 1..n |-> v]
Take(s, n) == SubSeq(s, 1, n)
Drop(s, n) == SubSeq(s, n + 1, Len(s))

\* the lowest descriptor not in use: what open, accept and socket return
LowestFree(S) == CHOOSE n \in 0..Cardinality(S) : n \notin S /\ \A m \in 0..(n - 1) : m \in S

\* a descriptor table's record of its sockets, kept for the descriptors in S
Restrict(f, S) == [x \in DOMAIN f \cap S |-> f[x]]

\* the w bytes at offset off of buffer b; a byte past the end of b has the stale value v
Rd(b, off, w, v) == [i \in 1..w |-> IF off + i <= Len(b) THEN b[off + i] ELSE v]

\* the stale values to draw for a read of n bytes of b: one (unused) when the read is in bounds
Pads(b, n) == IF n <= Len(b) THEN {0} ELSE StaleBytes

(***************************************************************************)
(* Directory trees (struct dirtreenode) and their serialization.           *)
(***************************************************************************)
Leaf(nm) == [name |-> nm, subdirs |-> <<>>]
Node(nm, subs) == [name |-> nm, subdirs |-> subs]
\* the trees the local getdirtree returns in the model: /a with file b and
\* subdirectory c holding d; and a lone directory
Trees == { Leaf(<<97>>),
           Node(<<97>>, <<Node(<<99>>, <<Leaf(<<100>>)>>), Leaf(<<98>>)>>) }

\* the lengths of the names in the trees serializeTree is given when it is
\* looked at alone: a short name, a name with which three nodes do not fit in
\* MAXMSGLEN bytes, and the shortest name with which one node does not
NameLens == {1, MAXMSGLEN \div 2, MAXMSGLEN - IntSize * 2 + 1}
Named(n) == [i \in 1..n |-> 97]
\* those trees: a lone directory, a directory with one or two entries, and a
\* directory with a subdirectory of one or two entries
FlatTrees ==
    {Leaf(Named(n)) : n \in NameLens}
    \cup {Node(Named(n), <<Leaf(Named(a))>>) : n \in NameLens, a \in NameLens}
    \cup {Node(Named(n), <<Leaf(Named(a)), Leaf(Named(b))>>) :
             n \in NameLens, a \in NameLens, b \in NameLens}
TreeInputs ==
    FlatTrees \cup {Node(Named(1), <<k, Leaf(Named(1))>>) : k \in FlatTrees}

\* serializaTreeNode: name_len, num_subdirs, name
serializaTreeNode(t) == LE(Len(t.name), IntSize) \o LE(Len(t.subdirs), IntSize) \o t.name

\* the positions of ps moved up by off
Shift(ps, off) == {q + off : q \in ps}

RECURSIVE serializeTree(_)
\* serializeTree: the node, then each subdirectory in order (preorder). A node
\* without subdirectories is returned in the buffer serializaTreeNode
\* allocated for it. Otherwise the node is copied into a buffer of size =
\* MAXMSGLEN bytes, whatever its length, and each subdirectory's bytes are
\* appended: when offset + tmp->len > size a new buffer of size * 2 bytes, or
\* of offset + tmp->len + size when that is too small, replaces buf (size
\* itself stays MAXMSGLEN). tmp is the bytes the code meant to write, and
\* lost the positions of tmp that were written past the end of the buffer
\* they went to
serializeTree(t) ==
    LET root == serializaTreeNode(t)
        size == MAXMSGLEN
        RECURSIVE Subdirs(_, _, _, _)
        Subdirs(b, cap, lost, i) ==
            IF i > Len(t.subdirs) THEN [tmp |-> b, lost |-> lost]
            ELSE LET tmp == serializeTree(t.subdirs[i])
                     offset == Len(b)
                     len == Len(tmp.tmp)
                     resize == IF offset + len > 2 * size THEN offset + len + size
                               ELSE size * 2
                     newcap == IF offset + len > size THEN resize ELSE cap
                 IN Subdirs(b \o tmp.tmp, newcap,
                            lost \cup Shift(tmp.lost, offset) \cup (newcap + 1 .. offset + len),
                            i + 1)
    IN IF Len(t.subdirs) = 0 THEN [tmp |-> root, lost |-> {}]
       ELSE Subdirs(root, size, size + 1 .. Len(root), 1)

(***************************************************************************)
(* The client's request frames (the client shim is outside the source:     *)
(* the layouts are those of the specification, section 4.2).               *)
(***************************************************************************)
Frame(op, payload) == LE(op, IntSize) \o LE(Len(payload), IntSize) \o payload
OpenReq(flags, mode, path) ==
    Frame(0, LE(flags, IntSize) \o LE(mode, IntSize) \o LE(Len(path), LongSize) \o path)
CloseReq(fd) == Frame(1, LE(fd, IntSize))
WriteReq(fd, data) == Frame(2, LE(fd, IntSize) \o LE(Len(data), LongSize) \o data)
ReadReq(fd, nbyte) == Frame(3, LE(fd, IntSize) \o LE(nbyte, LongSize))
LseekReq(fd, off, whence) == Frame(4, LE(fd, IntSize) \o LE(off, LongSize) \o LE(whence, IntSize))
StatReq(path) == Frame(5, LE(Len(path), IntSize) \o path)
UnlinkReq(path) == Frame(6, LE(Len(path), IntSize) \o path)
GetdirentriesReq(fd, nbyte, basep) ==
    Frame(7, LE(fd, IntSize) \o LE(nbyte, LongSize) \o LE(basep, LongSize))
GetdirtreeReq(path) == Frame(8, LE(Len(path), IntSize) \o path)

\* the number the session socket has in every handler: accept returns the
\* lowest free descriptor, the one after the listening socket
SessionFd == ListenFd + 1
\* an open, and a close of the descriptor with the session socket's number
CloseRequests == {OpenReq(0, 0, <<97>>), CloseReq(SessionFd)}

\* frames whose payload is shorter than the operation reads: a close without
\* payload, an open whose path_len announces five bytes where one follows, a
\* write whose nbyte announces two bytes where one follows; and a write as
\* it should be
ShortRequests ==
    { Frame(1, <<>>),
      Frame(0, LE(0, IntSize) \o LE(0, IntSize) \o LE(5, LongSize) \o <<97>>),
      Frame(2, LE(3, IntSize) \o LE(2, LongSize) \o <<104>>),
      WriteReq(3, <<104, 105>>) }

\* write requests whose payload is as long as MAXMSGLEN, one byte longer,
\* and one byte longer than twice MAXMSGLEN, and one without data
DataLens ==
    {0, MAXMSGLEN - (IntSize + LongSize), MAXMSGLEN - (IntSize + LongSize) + 1,
     2 * MAXMSGLEN - (IntSize + LongSize) + 1}
LongWrites == {WriteReq(3, [i \in 1..n |-> 104]) : n \in DataLens}

\* the frames a client may send: one per operation, and one with an op_id no operation has
Requests ==
    { OpenReq(0, 0, <<97>>), CloseReq(3), WriteReq(3, <<104, 105>>), ReadReq(3, 2),
      LseekReq(3, 1, 0), StatReq(<<97>>), UnlinkReq(<<97>>), GetdirentriesReq(3, 2, 0),
      GetdirtreeReq(<<97>>), Frame(9, <<>>) }

\* where a client may stop sending a frame (the whole frame, or a prefix after
\* which the client is gone): all but the last byte
Cuts(f) == {Len(f) - 1, Len(f)}

\* where the transport may split a header it delivers in pieces: after the
\* first byte, between op_id and payload_len
FragPoints == {1, IntSize}

\* the op_id and payload_len fields and the payload of a frame
FrameOp(f) == Int32(SubSeq(f, 1, IntSize))
FrameLen(f) == Int32(SubSeq(f, IntSize + 1, HeaderLen))
FramePayload(f) == Drop(f, HeaderLen)

(***************************************************************************)
(* State.                                                                  *)
(***************************************************************************)
VARIABLES
    \* the listener (main): its place in the accept loop, the connection it
    \* is handing off, its open descriptors, and which of them are sockets:
    \* descriptor |-> 0 for the listening socket, c for connection c's
    lpc, lsess, lfds, lsocks,
    \* the clients and the transport, per connection: idle / pending (in the
    \* listen backlog) / accepted; the link (none, up, closed by the peer,
    \* reset, gone with the handler); the bytes sent to the server and not yet
    \* received by it; the complete frames sent to a handler that has not
    \* ended; the number of frames sent over all connections;
    \* the number of times the transport delivered less than was in flight
    conn, link, inbuf, sentLog, nreq, nfrag,
    \* the handler process of a connection: where it is (none, start,
    \* header, payload, dispatch, exited); its exit status (-1 while it
    \* runs); the files it held open when it ended; its open descriptors
    \* and which of them are sockets (as lsocks); its session socket; its
    \* errno
    pc, status, released, fds, socks, sessfd, errno,
    \* the handler processes that have ended and that the listener has not
    \* waited for
    zombies,
    \* serve's and receiveAll's locals: the decoded header, the payload
    \* buffer (currlen is its length), the size of the next recv; the
    \* number of headers read; the parity of the turns of receiveAll's loop
    \* in which recv returned 0
    fID, bufSize, buf, maxSize, nhdr, nzero,
    \* the frame the handler's last step handed to send, what send returned
    \* and the error number as the local call of that step left it (retval
    \* is freed before the next header is read); the number
    \* of frames handed to send; the number of requests with a known op_id
    \* dispatched; the number of local filesystem calls made
    reply, sendrv, callerrno, nreply, ndisp, nfsop,
    \* one call of serializeTree taken alone: its argument, where the call
    \* is (idle, call, returned, killed, decoded), the bytes it returned and
    \* the tree a client decodes from them
    dirtree, tpc, rval, decoded,
    \* per handler, what became of a failed malloc: none (no allocation has
    \* failed), err (the test after it ended the process), used (the null
    \* pointer was passed on)
    oom

lvars == <<lpc, lsess, lfds, lsocks>>
cenv == <<conn, nreq, nfrag>>
cvars == <<cenv, link, sentLog, inbuf>>
pvars == <<pc, status, released, zombies, fds, socks, sessfd, errno>>
rvars == <<fID, bufSize, buf, maxSize, nhdr, nzero>>
cnts == <<nreply, ndisp, nfsop>>
svars == <<reply, sendrv, callerrno, cnts>>
tvars == <<dirtree, tpc, rval, decoded>>
vars == <<lvars, cvars, pvars, rvars, svars, tvars, oom>>

\* after socket, bind and listen: the listener holds the standard streams and
\* the listening socket, and waits in accept; k is the number of partial
\* deliveries the transport has made
Boot(k) ==
    /\ lpc = "accept" /\ lsess = 0 /\ lfds = {0, 1, 2, ListenFd}
    /\ lsocks = [x \in {ListenFd} |-> 0]
    /\ conn = [c \in Conns |-> "idle"]
    /\ link = [c \in Conns |-> "none"]
    /\ inbuf = [c \in Conns |-> <<>>]
    /\ sentLog = [c \in Conns |-> <<>>]
    /\ nreq = 0
    /\ nfrag = k
    /\ pc = [c \in Conns |-> "none"]
    /\ status = [c \in Conns |-> -1]
    /\ released = [c \in Conns |-> {}]
    /\ zombies = {}
    /\ fds = [c \in Conns |-> {}]
    /\ socks = [c \in Conns |-> [x \in {} |-> 0]]
    /\ sessfd = [c \in Conns |-> -1]
    /\ errno = [c \in Conns |-> 0]
    /\ fID = [c \in Conns |-> 0]
    /\ bufSize = [c \in Conns |-> 0]
    /\ buf = [c \in Conns |-> <<>>]
    /\ maxSize = [c \in Conns |-> 0]
    /\ nhdr = [c \in Conns |-> 0]
    /\ nzero = [c \in Conns |-> 0]
    /\ reply = [c \in Conns |-> <<>>]
    /\ sendrv = [c \in Conns |-> 0]
    /\ callerrno = [c \in Conns |-> 0]
    /\ nreply = [c \in Conns |-> 0]
    /\ ndisp = [c \in Conns |-> 0]
    /\ nfsop = [c \in Conns |-> 0]
    /\ oom = [c \in Conns |-> "none"]

\* no call of serializeTree is looked at alone
NoTree == dirtree = Leaf(<<>>) /\ tpc = "idle" /\ rval = <<>> /\ decoded = Leaf(<<>>)

Init == Boot(0) /\ NoTree

(***************************************************************************)
(* The clients and the transport.                                          *)
(***************************************************************************)
\* a client connects: the connection waits in the listen backlog
Connect(c) ==
    /\ UNCHANGED <<tvars, oom>>
    /\ conn[c] = "idle"
    /\ IF c = 1 THEN TRUE ELSE conn[c - 1] # "idle"
    /\ Cardinality({d \in Conns : conn[d] # "idle" /\ pc[d] # "exited"}) < MaxLive
    /\ conn' = [conn EXCEPT ![c] = "pending"]
    /\ link' = [link EXCEPT ![c] = "up"]
    /\ UNCHANGED <<inbuf, sentLog, nreq, nfrag, lvars, pvars, rvars, svars>>

\* a client connects while other sessions may be alive
ConnectAny(c) ==
    /\ UNCHANGED <<tvars, oom>>
    /\ conn[c] = "idle"
    /\ IF c = 1 THEN TRUE ELSE conn[c - 1] # "idle"
    /\ conn' = [conn EXCEPT ![c] = "pending"]
    /\ link' = [link EXCEPT ![c] = "up"]
    /\ UNCHANGED <<inbuf, sentLog, nreq, nfrag, lvars, pvars, rvars, svars>>

\* a client sends the first k bytes of frame f; short of the whole frame, the
\* client is gone and its end of the connection closes
ClientSend(c, f, k) ==
    /\ UNCHANGED <<tvars, oom>>
    /\ link[c] = "up"
    /\ pc[c] # "exited"
    /\ nreq < MaxReq
    /\ inbuf' = [inbuf EXCEPT ![c] = @ \o Take(f, k)]
    /\ nreq' = nreq + 1
    /\ IF k = Len(f)
       THEN sentLog' = [sentLog EXCEPT ![c] = Append(@, f)] /\ link' = link
       ELSE sentLog' = sentLog /\ link' = [link EXCEPT ![c] = "closed"]
    /\ UNCHANGED <<conn, nfrag, lvars, pvars, rvars, svars>>

\* the client closes its end
ClientClose(c) ==
    /\ UNCHANGED <<tvars, oom>>
    /\ link[c] = "up"
    /\ pc[c] # "exited"
    /\ link' = [link EXCEPT ![c] = "closed"]
    /\ UNCHANGED <<conn, inbuf, sentLog, nreq, nfrag, lvars, pvars, rvars, svars>>

\* the connection breaks (a reset): what was in flight is lost
ClientReset(c) ==
    /\ UNCHANGED <<tvars, oom>>
    /\ link[c] = "up"
    /\ pc[c] # "exited"
    /\ link' = [link EXCEPT ![c] = "reset"]
    /\ inbuf' = [inbuf EXCEPT ![c] = <<>>]
    /\ UNCHANGED <<conn, sentLog, nreq, nfrag, lvars, pvars, rvars, svars>>

(***************************************************************************)
(* The listener: main's accept loop.                                       *)
(***************************************************************************)
\* sessfd = accept(sockfd, ...)
Accept(c) ==
    /\ UNCHANGED <<tvars, oom>>
    /\ lpc = "accept"
    /\ conn[c] = "pending"
    /\ conn' = [conn EXCEPT ![c] = "accepted"]
    /\ sessfd' = [sessfd EXCEPT ![c] = LowestFree(lfds)]
    /\ lfds' = lfds \cup {LowestFree(lfds)}
    /\ lsocks' = [x \in DOMAIN lsocks \cup {LowestFree(lfds)} |->
                     IF x = LowestFree(lfds) THEN c ELSE lsocks[x]]
    /\ lsess' = c
    /\ lpc' = "fork"
    /\ UNCHANGED <<link, inbuf, sentLog, nreq, nfrag, pc, status, released, zombies, fds, socks, errno, rvars, svars>>

\* r = fork(): the child starts with a copy of the listener's descriptors
Fork ==
    /\ UNCHANGED <<tvars, oom>>
    /\ lpc = "fork"
    /\ pc' = [pc EXCEPT ![lsess] = "start"]
    /\ fds' = [fds EXCEPT ![lsess] = lfds]
    /\ socks' = [socks EXCEPT ![lsess] = lsocks]
    /\ lpc' = "close"
    /\ UNCHANGED <<lsess, lfds, lsocks, cvars, status, released, zombies, sessfd, errno, rvars, svars>>

\* the mutant of ParentClose: the parent keeps its copy of the session socket
ParentKeep ==
    /\ UNCHANGED <<tvars, oom>>
    /\ lpc = "close"
    /\ lpc' = "accept"
    /\ UNCHANGED <<lsess, lfds, lsocks, cvars, pvars, rvars, svars>>

\* the mutant of ParentClose: the parent waits for the child to end before
\* it goes back to accept
ParentWait ==
    /\ UNCHANGED <<tvars, oom>>
    /\ lpc = "close"
    /\ pc[lsess] = "exited"
    /\ lfds' = lfds \ {sessfd[lsess]}
    /\ lsocks' = Restrict(lsocks, lfds \ {sessfd[lsess]})
    /\ lpc' = "accept"
    /\ UNCHANGED <<lsess, cvars, pvars, rvars, svars>>

\* the parent's close(sessfd), then back to accept
ParentClose ==
    /\ UNCHANGED <<tvars, oom>>
    /\ lpc = "close"
    /\ lfds' = lfds \ {sessfd[lsess]}
    /\ lsocks' = Restrict(lsocks, lfds \ {sessfd[lsess]})
    /\ lpc' = "accept"
    /\ UNCHANGED <<lsess, cvars, pvars, rvars, svars>>

(***************************************************************************)
(* The handler process: the child of main.                                 *)
(***************************************************************************)
\* the child's close(sockfd), then into the serve loop
ChildStart(c) ==
    /\ UNCHANGED <<tvars, oom>>
    /\ pc[c] = "start"
    /\ fds' = [fds EXCEPT ![c] = @ \ {ListenFd}]
    /\ socks' = [socks EXCEPT ![c] = Restrict(@, fds[c] \ {ListenFd})]
    /\ pc' = [pc EXCEPT ![c] = "header"]
    /\ UNCHANGED <<lvars, cvars, status, released, zombies, sessfd, errno, rvars, svars>>

\* the descriptors of handler c that it opened itself: those that are neither
\* sockets inherited from the listener nor the standard streams
Files(c) == fds[c] \ (DOMAIN socks[c] \cup 0..2)

\* the mutant of Exit: every end of the process is err(1, 0)
ExitErr(c, st) ==
    /\ pc' = [pc EXCEPT ![c] = "exited"]
    /\ status' = [status EXCEPT ![c] = 1]
    /\ released' = [released EXCEPT ![c] = Files(c)]
    /\ zombies' = zombies \cup {c}
    /\ fds' = [fds EXCEPT ![c] = {}]
    /\ socks' = [socks EXCEPT ![c] = Restrict(@, {})]
    /\ errno' = [errno EXCEPT ![c] = 0]
    /\ fID' = [fID EXCEPT ![c] = 0]
    /\ bufSize' = [bufSize EXCEPT ![c] = 0]
    /\ buf' = [buf EXCEPT ![c] = <<>>]
    /\ maxSize' = [maxSize EXCEPT ![c] = 0]
    /\ nhdr' = nhdr
    /\ nzero' = [nzero EXCEPT ![c] = 0]
    /\ inbuf' = [inbuf EXCEPT ![c] = <<>>]
    /\ link' = [link EXCEPT ![c] = "gone"]
    /\ sentLog' = [sentLog EXCEPT ![c] = <<>>]

\* the mutant of Exit: the descriptors of the ended process stay open
ExitLeak(c, st) ==
    /\ pc' = [pc EXCEPT ![c] = "exited"]
    /\ status' = [status EXCEPT ![c] = st]
    /\ released' = [released EXCEPT ![c] = Files(c)]
    /\ zombies' = zombies \cup {c}
    /\ fds' = fds
    /\ socks' = socks
    /\ errno' = [errno EXCEPT ![c] = 0]
    /\ fID' = [fID EXCEPT ![c] = 0]
    /\ bufSize' = [bufSize EXCEPT ![c] = 0]
    /\ buf' = [buf EXCEPT ![c] = <<>>]
    /\ maxSize' = [maxSize EXCEPT ![c] = 0]
    /\ nhdr' = nhdr
    /\ nzero' = [nzero EXCEPT ![c] = 0]
    /\ inbuf' = [inbuf EXCEPT ![c] = <<>>]
    /\ link' = [link EXCEPT ![c] = "gone"]
    /\ sentLog' = [sentLog EXCEPT ![c] = <<>>]

\* the process ends with status st (exit, err, or 128 + the signal that killed
\* it): the system closes every descriptor it held and the connection with
\* them, and the process's memory is gone (the counts of what it did stay)
Exit(c, st) ==
    /\ pc' = [pc EXCEPT ![c] = "exited"]
    /\ status' = [status EXCEPT ![c] = st]
    /\ released' = [released EXCEPT ![c] = Files(c)]
    /\ zombies' = zombies \cup {c}
    /\ fds' = [fds EXCEPT ![c] = {}]
    /\ socks' = [socks EXCEPT ![c] = Restrict(@, {})]
    /\ errno' = [errno EXCEPT ![c] = 0]
    /\ fID' = [fID EXCEPT ![c] = 0]
    /\ bufSize' = [bufSize EXCEPT ![c] = 0]
    /\ buf' = [buf EXCEPT ![c] = <<>>]
    /\ maxSize' = [maxSize EXCEPT ![c] = 0]
    /\ nhdr' = nhdr
    /\ nzero' = [nzero EXCEPT ![c] = 0]
    /\ inbuf' = [inbuf EXCEPT ![c] = <<>>]
    /\ link' = [link EXCEPT ![c] = "gone"]
    /\ sentLog' = [sentLog EXCEPT ![c] = <<>>]

\* in a process whose open descriptors are F, the number sessfd still names
\* the session socket: it is open, and it is the socket (not a file opened
\* under that number after the socket was closed)
SessOpen(c, F) == sessfd[c] \in F \cap DOMAIN socks[c]

\* recv on the session socket fails: the descriptor is not open (EBADF) or is
\* not a socket (ENOTSOCK), or the connection was reset
RecvFails(c) == ~SessOpen(c, fds[c]) \/ link[c] = "reset"
\* recv returns 0: the peer closed and everything it sent was received
RecvEof(c) == ~RecvFails(c) /\ link[c] = "closed" /\ inbuf[c] = <<>>

(***************************************************************************)
(* serve: the header, and receiveAll.                                      *)
(***************************************************************************)
\* what the one recv of the header may return when bytes are in flight: all of
\* them up to the 8 asked for, or fewer when the transport delivers in pieces
HeaderReads(c) ==
    LET all == Min(HeaderLen, Len(inbuf[c]))
    IN IF nfrag < MaxFrag THEN {all} \cup {k \in FragPoints : k < all} ELSE {all}

\* rv = recv(sessfd, op, sizeof(int)*2, 0), one call: rv < 0 is err(1,0);
\* rv = 0 returns -1 to main, which closes the session socket and exits 0;
\* otherwise the header is decoded from op, whose bytes past rv were never
\* set, buf[bufSize] is allocated and receiveAll runs up to its first recv
RecvHeader(c) ==
    /\ UNCHANGED <<tvars, oom>>
    /\ pc[c] = "header"
    /\ \/ /\ RecvFails(c)
          /\ Exit(c, 1)
          /\ UNCHANGED nfrag
       \/ /\ RecvEof(c)
          /\ Exit(c, 0)
          /\ UNCHANGED nfrag
       \/ /\ ~RecvFails(c)
          /\ inbuf[c] # <<>>
          /\ \E rv \in HeaderReads(c) :
             \E v \in (IF rv = HeaderLen THEN {0} ELSE StaleBytes) :
                LET op == Take(inbuf[c], rv) \o Fill(HeaderLen - rv, v)
                    id == Int32(SubSeq(op, 1, IntSize))
                    size == Int32(SubSeq(op, IntSize + 1, HeaderLen))
                IN /\ nfrag' = IF rv < Min(HeaderLen, Len(inbuf[c])) THEN nfrag + 1 ELSE nfrag
                   \* char buf[bufSize] with bufSize < 0 is undefined: the
                   \* process is killed, or goes on with nothing received
                   /\ \E killed \in (IF size < 0 THEN BOOLEAN ELSE {FALSE}) :
                        IF killed THEN Exit(c, 128 + SIGSEGV)
                        ELSE /\ inbuf' = [inbuf EXCEPT ![c] = Drop(@, rv)]
                             /\ fID' = [fID EXCEPT ![c] = id]
                             /\ bufSize' = [bufSize EXCEPT ![c] = size]
                             /\ buf' = [buf EXCEPT ![c] = <<>>]
                             /\ maxSize' = [maxSize EXCEPT ![c] = Min(MAXMSGLEN, size)]
                             /\ nhdr' = [nhdr EXCEPT ![c] = @ + 1]
                             /\ nzero' = nzero
                             /\ pc' = [pc EXCEPT ![c] = IF 0 < size THEN "payload" ELSE "dispatch"]
                             /\ UNCHANGED <<status, released, zombies, fds, socks, errno, link, sentLog>>
    /\ reply' = [reply EXCEPT ![c] = <<>>]
    /\ sendrv' = [sendrv EXCEPT ![c] = 0]
    /\ callerrno' = [callerrno EXCEPT ![c] = 0]
    /\ UNCHANGED <<sessfd, conn, nreq, lvars, cnts>>

\* what a recv of receiveAll may return when bytes are in flight: all of them
\* up to the maxSize asked for, or fewer when the transport delivers in pieces
PayloadReads(c) ==
    LET all == Min(maxSize[c], Len(inbuf[c]))
    IN IF nfrag < MaxFrag THEN {all} \cup {k \in {1, all - 1} : 0 < k /\ k < all} ELSE {all}

\* the mutant of RecvPayload: maxSize is not lowered to what is missing
RecvPayloadGreedy(c) ==
    /\ UNCHANGED <<tvars, oom>>
    /\ pc[c] = "payload"
    /\ \/ /\ RecvFails(c)
          /\ Exit(c, 1)
          /\ UNCHANGED nfrag
       \/ \* rv = 0: currlen and maxSize stay and the loop goes round again
          /\ RecvEof(c)
          /\ nzero' = [nzero EXCEPT ![c] = 1 - @]
          /\ UNCHANGED <<inbuf, fID, bufSize, buf, maxSize, nhdr, pc, status, released, zombies, fds, socks, errno,
                         link, sentLog, nfrag>>
       \/ /\ ~RecvFails(c)
          /\ inbuf[c] # <<>>
          /\ \E rv \in PayloadReads(c) :
                LET currlen == Len(buf[c]) + rv
                IN /\ nfrag' = IF rv < Min(maxSize[c], Len(inbuf[c])) THEN nfrag + 1 ELSE nfrag
                   /\ inbuf' = [inbuf EXCEPT ![c] = Drop(@, rv)]
                   /\ buf' = [buf EXCEPT ![c] = @ \o Take(inbuf[c], rv)]
                   /\ maxSize' = maxSize
                   /\ pc' = [pc EXCEPT ![c] = IF currlen < bufSize[c] THEN "payload" ELSE "dispatch"]
                   /\ UNCHANGED <<fID, bufSize, nhdr, nzero, status, released, zombies, fds, socks, errno, link, sentLog>>
    /\ UNCHANGED <<sessfd, conn, nreq, lvars, svars>>

\* one turn of receiveAll's loop: rv = recv(sessfd, buf+currlen, maxSize, 0);
\* currlen += rv; rv < 0 is err(1,0); maxSize shrinks to what is missing
RecvPayload(c) ==
    /\ UNCHANGED <<tvars, oom>>
    /\ pc[c] = "payload"
    /\ \/ /\ RecvFails(c)
          /\ Exit(c, 1)
          /\ UNCHANGED nfrag
       \/ \* rv = 0: currlen and maxSize stay and the loop goes round again
          /\ RecvEof(c)
          /\ nzero' = [nzero EXCEPT ![c] = 1 - @]
          /\ UNCHANGED <<inbuf, fID, bufSize, buf, maxSize, nhdr, pc, status, released, zombies, fds, socks, errno,
                         link, sentLog, nfrag>>
       \/ /\ ~RecvFails(c)
          /\ inbuf[c] # <<>>
          /\ \E rv \in PayloadReads(c) :
                LET currlen == Len(buf[c]) + rv
                IN /\ nfrag' = IF rv < Min(maxSize[c], Len(inbuf[c])) THEN nfrag + 1 ELSE nfrag
                   /\ inbuf' = [inbuf EXCEPT ![c] = Drop(@, rv)]
                   /\ buf' = [buf EXCEPT ![c] = @ \o Take(inbuf[c], rv)]
                   /\ maxSize' = [maxSize EXCEPT ![c] =
                                    IF bufSize[c] - currlen < @ THEN bufSize[c] - currlen ELSE @]
                   /\ pc' = [pc EXCEPT ![c] = IF currlen < bufSize[c] THEN "payload" ELSE "dispatch"]
                   /\ UNCHANGED <<fID, bufSize, nhdr, nzero, status, released, zombies, fds, socks, errno, link, sentLog>>
    /\ UNCHANGED <<sessfd, conn, nreq, lvars, svars>>

(***************************************************************************)
(* The operation handlers.                                                 *)
(***************************************************************************)
\* what send(sessfd, retval, n, 0) may return in a process whose open
\* descriptors are F: n; -1 when the descriptor is closed or no socket; -1
\* or a part of n when the connection was reset
SendResults(c, F, n) ==
    IF ~SessOpen(c, F) THEN {-1}
    ELSE IF link[c] = "reset" THEN {-1} \cup {k \in {IntSize, n - 1} : 0 < k /\ k < n}
    ELSE {n}

\* the mutant of Sent: send is handed the length written in the frame
SentLen(retval, n) == [i \in 1..(n - IntSize) |-> IF i <= Len(retval) THEN retval[i] ELSE 0]

\* the n bytes send is handed from retval
Sent(retval, n) == [i \in 1..n |-> IF i <= Len(retval) THEN retval[i] ELSE 0]

\* the error number when a handler copies it into retval, e0 being the one
\* the local call left: malloc (and free) run in between, and a malloc that
\* succeeds may leave ENOMEM behind (a failed attempt to grow the heap
\* before it maps memory)
AfterCalls(e0) == {e0, ENOMEM}

\* the mutant of Finish: the handlers share one descriptor table (threads of
\* one process in place of forked processes)
FinishShared(c, retval, n, F, e0, e) ==
    /\ reply' = [reply EXCEPT ![c] = Sent(retval, n)]
    /\ callerrno' = [callerrno EXCEPT ![c] = e0]
    /\ nreply' = [nreply EXCEPT ![c] = @ + 1]
    /\ ndisp' = [ndisp EXCEPT ![c] = @ + 1]
    /\ nfsop' = [nfsop EXCEPT ![c] = @ + 1]
    /\ sendrv' = [sendrv EXCEPT ![c] = n]
    /\ pc' = [pc EXCEPT ![c] = "header"]
    /\ fds' = [d \in Conns |-> IF pc[d] \in {"header", "payload", "dispatch"} THEN F ELSE fds[d]]
    /\ socks' = [d \in Conns |-> Restrict(socks[d], fds'[d])]
    /\ errno' = [errno EXCEPT ![c] = e]
    /\ UNCHANGED <<status, released, zombies, inbuf, rvars, link, sentLog, sessfd, lvars, cenv>>

\* the end of every handler: the local call is made (leaving the descriptors
\* F and the error number e0), retval is built with the error number e it
\* finds then and handed to send with length n, send's result is dropped and
\* serve returns 0 to main's loop; a send on a reset connection may raise
\* SIGPIPE instead
Finish(c, retval, n, F, e0, e) ==
    /\ reply' = [reply EXCEPT ![c] = Sent(retval, n)]
    /\ callerrno' = [callerrno EXCEPT ![c] = e0]
    /\ nreply' = [nreply EXCEPT ![c] = @ + 1]
    /\ ndisp' = [ndisp EXCEPT ![c] = @ + 1]
    /\ nfsop' = [nfsop EXCEPT ![c] = @ + 1]
    /\ \E rv \in SendResults(c, F, n) :
       \E killed \in (IF rv = -1 /\ SessOpen(c, F) THEN BOOLEAN ELSE {FALSE}) :
          /\ sendrv' = [sendrv EXCEPT ![c] = rv]
          /\ IF killed THEN Exit(c, 128 + SIGPIPE)
             ELSE /\ pc' = [pc EXCEPT ![c] = "header"]
                  /\ fds' = [fds EXCEPT ![c] = F]
                  /\ socks' = [socks EXCEPT ![c] = Restrict(@, F)]
                  /\ errno' = [errno EXCEPT ![c] = e]
                  /\ UNCHANGED <<status, released, zombies, inbuf, rvars, link, sentLog>>
    /\ UNCHANGED <<sessfd, lvars, cenv>>

\* the handler is killed by SIGSEGV before it sends; called is 1 when the
\* local call was made before
Crash(c, called) ==
    /\ Exit(c, 128 + SIGSEGV)
    /\ ndisp' = [ndisp EXCEPT ![c] = @ + 1]
    /\ nfsop' = [nfsop EXCEPT ![c] = @ + called]
    /\ UNCHANGED <<reply, sendrv, callerrno, nreply, sessfd, lvars, cenv>>

\* the end of the bytes a handler reads from buf when its fixed fields take
\* fixed bytes and an embedded count asks for cnt more (Huge: past any buffer)
Need(b, fixed, cnt) ==
    IF Len(b) < fixed THEN fixed
    ELSE IF cnt < 0 \/ cnt = Huge THEN Huge
    ELSE fixed + cnt

\* the end of the bytes the handler of operation op reads from the payload
\* buffer b: open reads flag, m, pathLen and pathLen bytes; close fd; write
\* fildes, nbyte and nbyte bytes; read fildes and nbyte; lseek fildes, offset
\* and pos; stat, unlink and getdirtree a length and as many bytes;
\* getdirentries fd, nbyte and basep
ReadEnd(op, b) ==
    CASE op = 0 -> Need(b, IntSize * 2 + LongSize, UInt64(Rd(b, IntSize * 2, LongSize, 0)))
      [] op = 1 -> IntSize
      [] op = 2 -> Need(b, IntSize + LongSize, UInt64(Rd(b, IntSize, LongSize, 0)))
      [] op = 3 -> IntSize + LongSize
      [] op = 4 -> IntSize + LongSize + IntSize
      [] op \in {5, 6, 8} -> Need(b, IntSize, Int32(Rd(b, 0, IntSize, 0)))
      [] op = 7 -> IntSize + LongSize + LongSize
      [] OTHER -> 0

\* the error number after a local call that returned res: set when it failed
ErrnoAfter(c, res, e) == IF res = -1 THEN e ELSE errno[c]

\* the bytes a local read or getdirentries of res bytes leaves in its buffer
FileBytes(res) == [i \in 1..res |-> 103 + i]

\* serveOpen: flag, m, pathLen and the path are read from buf; open; the reply
\* is len = 8, res, errno
serveOpen(c) ==
    /\ UNCHANGED <<tvars, oom>>
    /\ pc[c] = "dispatch" /\ fID[c] = 0
    /\ LET b == buf[c]
           fixed == IntSize + IntSize + LongSize
       IN \E v \in Pads(b, Need(b, fixed, UInt64(Rd(b, 2 * IntSize, LongSize, 0)))) :
            LET pathLen == UInt64(Rd(b, 2 * IntSize, LongSize, v))
            IN \/ \* memcpy(path, buf+16, pathLen) past the payload: undefined
                  /\ Need(b, fixed, pathLen) > Len(b)
                  /\ Crash(c, 0)
               \/ /\ pathLen # Huge
                  /\ \E res \in {LowestFree(fds[c]), -1} :
                     \E e \in AfterCalls(ErrnoAfter(c, res, ENOENT)) :
                        LET len == IntSize * 2
                            retval == LE(len, IntSize) \o LE(res, IntSize) \o LE(e, IntSize)
                        IN Finish(c, retval, 3 * IntSize,
                                  IF res = -1 THEN fds[c] ELSE fds[c] \cup {res},
                                  ErrnoAfter(c, res, ENOENT), e)

\* serveClose: fd is read from buf; close; the reply is len = 8, res, errno
serveClose(c) ==
    /\ UNCHANGED <<tvars, oom>>
    /\ pc[c] = "dispatch" /\ fID[c] = 1
    /\ LET b == buf[c]
       IN \E v \in Pads(b, IntSize) :
            LET fd == Int32(Rd(b, 0, IntSize, v))
                res == IF fd \in fds[c] THEN 0 ELSE -1
                e0 == ErrnoAfter(c, res, EBADF)
                len == IntSize * 2
            IN \/ /\ IntSize > Len(b)
                  /\ Crash(c, 0)
               \/ \E e \in AfterCalls(e0) :
                     LET retval == LE(len, IntSize) \o LE(res, IntSize) \o LE(e, IntSize)
                     IN Finish(c, retval, 3 * IntSize, fds[c] \ {fd}, e0, e)

\* serveWrite: fildes, nbyte and nbyte bytes of data are read from buf; write;
\* the reply is len = 12, res (8 bytes), errno
serveWrite(c) ==
    /\ UNCHANGED <<tvars, oom>>
    /\ pc[c] = "dispatch" /\ fID[c] = 2
    /\ LET b == buf[c]
           fixed == IntSize + LongSize
       IN \E v \in Pads(b, Need(b, fixed, UInt64(Rd(b, IntSize, LongSize, 0)))) :
            LET fildes == Int32(Rd(b, 0, IntSize, v))
                nbyte == UInt64(Rd(b, IntSize, LongSize, v))
            IN \/ \* memcpy(buff, buf+12, nbyte) past the payload: undefined
                  /\ Need(b, fixed, nbyte) > Len(b)
                  /\ Crash(c, 0)
               \/ /\ nbyte # Huge
                  /\ \E res \in (IF fildes \in fds[c] THEN {nbyte, -1} ELSE {-1}) :
                     \E e \in AfterCalls(ErrnoAfter(c, res, EBADF)) :
                        LET len == IntSize + LongSize
                            retval == LE(len, IntSize) \o LE(res, LongSize) \o LE(e, IntSize)
                        IN Finish(c, retval, LongSize + IntSize * 2, fds[c],
                                  ErrnoAfter(c, res, EBADF), e)

\* the mutant of ReadReply: the data copied and sent are the nbyte bytes of
\* the scratch buffer
ReadReplyAll(res, e, buff) ==
    [retval |-> LE(Len(buff) + LongSize + IntSize, IntSize) \o LE(res, LongSize)
                  \o LE(e, IntSize) \o buff,
     n |-> LongSize + IntSize * 2 + Len(buff)]

\* serveRead's reply for result res and scratch buffer buff: len, res
\* (8 bytes), errno and, unless res = -1, the first res bytes of buff; n is
\* the length handed to send
ReadReply(res, e, buff) ==
    IF res # -1
    THEN [retval |-> LE(res + LongSize + IntSize, IntSize) \o LE(res, LongSize)
                        \o LE(e, IntSize) \o Take(buff, res),
          n |-> LongSize + IntSize * 2 + res]
    ELSE [retval |-> LE(LongSize + IntSize, IntSize) \o LE(res, LongSize) \o LE(e, IntSize),
          n |-> LongSize + 2 * IntSize]

\* the scratch buffer of nbyte bytes after a local call that returned res:
\* the bytes read, then bytes never set (the model keeps one of them at most)
Scratch(nbyte, res, v) ==
    FileBytes(Max(res, 0)) \o Fill(Min(nbyte - Max(res, 0), 1), v)

\* serveRead: fildes and nbyte are read from buf; read into a scratch buffer
\* of nbyte bytes
serveRead(c) ==
    /\ UNCHANGED <<tvars, oom>>
    /\ pc[c] = "dispatch" /\ fID[c] = 3
    /\ LET b == buf[c]
           fixed == IntSize + LongSize
       IN \E v \in Pads(b, fixed) :
            LET fildes == Int32(Rd(b, 0, IntSize, v))
                nbyte == UInt64(Rd(b, IntSize, LongSize, v))
            IN \/ /\ fixed > Len(b)
                  /\ Crash(c, 0)
               \/ \E res \in (IF fildes \in fds[c] THEN {-1} \cup 0..Min(nbyte, MaxData) ELSE {-1}) :
                  \E w \in StaleBytes :
                  \E e \in AfterCalls(ErrnoAfter(c, res, EBADF)) :
                     LET r == ReadReply(res, e, Scratch(nbyte, res, w))
                     IN Finish(c, r.retval, r.n, fds[c], ErrnoAfter(c, res, EBADF), e)

\* serveLseek: fildes, offset and pos are read from buf; lseek; the reply is
\* len = 12, res (8 bytes), errno
serveLseek(c) ==
    /\ UNCHANGED <<tvars, oom>>
    /\ pc[c] = "dispatch" /\ fID[c] = 4
    /\ LET b == buf[c]
           fixed == IntSize + LongSize + IntSize
       IN \E v \in Pads(b, fixed) :
            LET fildes == Int32(Rd(b, 0, IntSize, v))
                offset == Int64(Rd(b, IntSize, LongSize, v))
                pos == Int32(Rd(b, IntSize + LongSize, IntSize, v))
                ok == fildes \in fds[c] /\ pos = 0 /\ 0 <= offset /\ offset < Huge
                res == IF ok THEN offset ELSE -1
                e0 == ErrnoAfter(c, res, IF fildes \in fds[c] THEN EINVAL ELSE EBADF)
                len == LongSize + IntSize
            IN \/ /\ fixed > Len(b)
                  /\ Crash(c, 0)
               \/ \E e \in AfterCalls(e0) :
                     LET retval == LE(len, IntSize) \o LE(res, LongSize) \o LE(e, IntSize)
                     IN Finish(c, retval, LongSize + IntSize * 2, fds[c], e0, e)

\* serveStat: pathLen and the path are read from buf; stat; the reply is
\* len = 8 + sizeof(struct stat), res, errno and the stat record, which
\* nothing has set when stat failed
serveStat(c) ==
    /\ UNCHANGED <<tvars, oom>>
    /\ pc[c] = "dispatch" /\ fID[c] = 5
    /\ LET b == buf[c]
       IN \E v \in Pads(b, Need(b, IntSize, Int32(Rd(b, 0, IntSize, 0)))) :
            LET pathLen == Int32(Rd(b, 0, IntSize, v))
            IN \/ \* memcpy(path, buf+4, pathLen) past the payload: undefined
                  /\ Need(b, IntSize, pathLen) > Len(b)
                  /\ Crash(c, 0)
               \/ /\ pathLen >= 0
                  /\ \E res \in {0, -1} :
                     \E w \in (IF res = -1 THEN StaleBytes ELSE {1}) :
                     \E e \in AfterCalls(ErrnoAfter(c, res, ENOENT)) :
                        LET len == IntSize * 2 + StatSize
                            retval == LE(len, IntSize) \o LE(res, IntSize) \o LE(e, IntSize)
                                        \o Fill(StatSize, w)
                        IN Finish(c, retval, IntSize * 3 + StatSize, fds[c],
                                  ErrnoAfter(c, res, ENOENT), e)

\* serveUnlink: pathLen and the path are read from buf; unlink; the reply is
\* len = 8, res, errno
serveUnlink(c) ==
    /\ UNCHANGED <<tvars, oom>>
    /\ pc[c] = "dispatch" /\ fID[c] = 6
    /\ LET b == buf[c]
       IN \E v \in Pads(b, Need(b, IntSize, Int32(Rd(b, 0, IntSize, 0)))) :
            LET pathLen == Int32(Rd(b, 0, IntSize, v))
            IN \/ /\ Need(b, IntSize, pathLen) > Len(b)
                  /\ Crash(c, 0)
               \/ /\ pathLen >= 0
                  /\ \E res \in {0, -1} :
                     \E e \in AfterCalls(ErrnoAfter(c, res, ENOENT)) :
                        LET len == IntSize * 2
                            retval == LE(len, IntSize) \o LE(res, IntSize) \o LE(e, IntSize)
                        IN Finish(c, retval, IntSize * 3, fds[c],
                                  ErrnoAfter(c, res, ENOENT), e)

\* serveGetdirentries: fd, nbyte and basep are read from buf; getdirentries
\* into buff[nbyte]; retval has res + 16 bytes, len = res + 12, and
\* memcpy(retval + 16, buff, res) copies res bytes as a size_t: with
\* res = -1 that is undefined (the process is killed, or goes on to send
\* the 16 + res = 15 bytes it allocated)
serveGetdirentries(c) ==
    /\ UNCHANGED <<tvars, oom>>
    /\ pc[c] = "dispatch" /\ fID[c] = 7
    /\ LET b == buf[c]
           fixed == IntSize + LongSize + LongSize
       IN \E v \in Pads(b, fixed) :
            LET fd == Int32(Rd(b, 0, IntSize, v))
                nbyte == UInt64(Rd(b, IntSize, LongSize, v))
            IN \/ /\ fixed > Len(b) \/ nbyte = Huge
                  /\ Crash(c, 0)
               \/ /\ nbyte # Huge
                  /\ \E res \in (IF fd \in fds[c] THEN {-1} \cup 0..Min(nbyte, MaxData) ELSE {-1}) :
                     \E w \in StaleBytes :
                     \E e \in AfterCalls(ErrnoAfter(c, res, EBADF)) :
                        LET len == res + IntSize + LongSize
                            retval == LE(len, IntSize) \o LE(res, LongSize) \o LE(e, IntSize)
                                        \o Take(Scratch(nbyte, res, w), Max(res, 0))
                        IN \/ /\ res < 0
                              /\ Crash(c, 1)
                           \/ Finish(c, retval, LongSize + IntSize * 2 + res, fds[c],
                                     ErrnoAfter(c, res, EBADF), e)

\* the mutant of serveGetdirtree: err_code is placed before tree_len
serveGetdirtreeErrFirst(c) ==
    /\ UNCHANGED <<tvars, oom>>
    /\ pc[c] = "dispatch" /\ fID[c] = 8
    /\ LET b == buf[c]
       IN \E v \in Pads(b, Need(b, IntSize, Int32(Rd(b, 0, IntSize, 0)))) :
            LET n == Int32(Rd(b, 0, IntSize, v))
            IN \/ /\ Need(b, IntSize, n) > Len(b)
                  /\ Crash(c, 0)
               \/ /\ n >= 0
                  /\ LET e == ErrnoAfter(c, -1, ENOENT)
                         bufLen == IntSize * 2
                         retval == LE(bufLen, IntSize) \o LE(1, IntSize) \o LE(e, IntSize)
                     IN \* retval is an array: nothing runs between getdirtree and the copy
                        Finish(c, retval, IntSize * 3, fds[c], e, e)
               \/ /\ n >= 0
                  /\ \E t \in Trees :
                     \* serializeTree allocates and frees before errno is copied
                     \E e \in AfterCalls(errno[c]) :
                        LET s == serializeTree(t).tmp
                            len == Len(s)
                            bufLen == IntSize * 2 + LongSize + len + 1
                            retval == LE(bufLen, IntSize) \o LE(0, IntSize) \o LE(e, IntSize)
                                        \o LE(len, LongSize) \o s \o <<0>>
                        IN \/ /\ serializeTree(t).lost # {}
                              /\ Crash(c, 1)
                           \/ Finish(c, retval, len + IntSize * 3 + LongSize + 1, fds[c],
                                     errno[c], e)

\* serveGetdirtree: n and the path are read from buf; getdirtree; the reply is
\* bufLen = 8, 1, errno when it returned NULL, and else bufLen = 17 + len,
\* 0, len (8 bytes), errno, the len bytes of serializeTree and a zero byte
\* (a serializeTree that wrote past its buffer may have killed the process)
serveGetdirtree(c) ==
    /\ UNCHANGED <<tvars, oom>>
    /\ pc[c] = "dispatch" /\ fID[c] = 8
    /\ LET b == buf[c]
       IN \E v \in Pads(b, Need(b, IntSize, Int32(Rd(b, 0, IntSize, 0)))) :
            LET n == Int32(Rd(b, 0, IntSize, v))
            IN \/ /\ Need(b, IntSize, n) > Len(b)
                  /\ Crash(c, 0)
               \/ /\ n >= 0
                  /\ LET e == ErrnoAfter(c, -1, ENOENT)
                         bufLen == IntSize * 2
                         retval == LE(bufLen, IntSize) \o LE(1, IntSize) \o LE(e, IntSize)
                     IN \* retval is an array: nothing runs between getdirtree and the copy
                        Finish(c, retval, IntSize * 3, fds[c], e, e)
               \/ /\ n >= 0
                  /\ \E t \in Trees :
                     \* serializeTree allocates and frees before errno is copied
                     \E e \in AfterCalls(errno[c]) :
                        LET s == serializeTree(t).tmp
                            len == Len(s)
                            bufLen == IntSize * 2 + LongSize + len + 1
                            retval == LE(bufLen, IntSize) \o LE(0, IntSize) \o LE(len, LongSize)
                                        \o LE(e, IntSize) \o s \o <<0>>
                        IN \/ /\ serializeTree(t).lost # {}
                              /\ Crash(c, 1)
                           \/ Finish(c, retval, len + IntSize * 3 + LongSize + 1, fds[c],
                                     errno[c], e)

\* the allocations of the handler of operation op that are followed by a
\* test for NULL: 0 for one made before the local call (the path copy, read's
\* scratch buffer), 1 for one made after it (retval, serializeTree's buffers)
Allocs(op) ==
    CASE op \in {0, 3, 5, 6} -> {0, 1}
      [] op \in {1, 2, 4, 7, 8} -> {1}
      [] OTHER -> {}

\* a malloc of the handler returns NULL and the test after it calls
\* err(1, 0): the process ends with status 1, nothing is sent
OutOfMemory(c) ==
    /\ UNCHANGED tvars
    /\ pc[c] = "dispatch"
    /\ \E called \in Allocs(fID[c]) :
          /\ Exit(c, 1)
          /\ oom' = [oom EXCEPT ![c] = "err"]
          /\ ndisp' = [ndisp EXCEPT ![c] = @ + 1]
          /\ nfsop' = [nfsop EXCEPT ![c] = @ + called]
          /\ UNCHANGED <<reply, sendrv, callerrno, nreply, sessfd, lvars, cenv>>

\* serveWrite when buff = malloc(nbyte) returns NULL: there is no test, and
\* memcpy(buff, buf + 12, nbyte) writes nbyte bytes at address 0, which kills
\* the process; with nbyte = 0 nothing is written, write(fildes, NULL, 0)
\* is made and the reply is sent
serveWriteNull(c) ==
    /\ UNCHANGED tvars
    /\ pc[c] = "dispatch" /\ fID[c] = 2
    /\ oom' = [oom EXCEPT ![c] = "used"]
    /\ LET b == buf[c]
       IN \E v \in Pads(b, IntSize + LongSize) :
            LET fildes == Int32(Rd(b, 0, IntSize, v))
                nbyte == UInt64(Rd(b, IntSize, LongSize, v))
            IN \/ /\ nbyte # 0
                  /\ Crash(c, 0)
               \/ /\ nbyte = 0
                  /\ \E res \in (IF fildes \in fds[c] THEN {0, -1} ELSE {-1}) :
                     \E e \in AfterCalls(ErrnoAfter(c, res, EBADF)) :
                        LET len == IntSize + LongSize
                            retval == LE(len, IntSize) \o LE(res, LongSize) \o LE(e, IntSize)
                        IN Finish(c, retval, LongSize + IntSize * 2, fds[c],
                                  ErrnoAfter(c, res, EBADF), e)

\* the mutant of serveUndefined: an error reply is sent and the session goes on
serveUndefinedReply(c) ==
    /\ UNCHANGED <<tvars, oom>>
    /\ pc[c] = "dispatch" /\ fID[c] \notin 0..8
    /\ Finish(c, LE(IntSize, IntSize) \o LE(-1, IntSize), IntSize * 2, fds[c],
              errno[c], errno[c])

\* serve's last branch: an op_id no operation has; serve returns -1 and main
\* closes the session socket and exits 0
serveUndefined(c) ==
    /\ UNCHANGED <<tvars, oom>>
    /\ pc[c] = "dispatch" /\ fID[c] \notin 0..8
    /\ Exit(c, 0)
    /\ UNCHANGED <<sessfd, lvars, cenv, svars>>

(***************************************************************************)
(* The system.                                                             *)
(***************************************************************************)
Client(c) ==
    \/ Connect(c)
    \/ \E f \in Requests : \E k \in Cuts(f) : ClientSend(c, f, k)
    \/ ClientClose(c)
    \/ ClientReset(c)

Listener == (\E c \in Conns : Accept(c)) \/ Fork \/ ParentClose

Handler(c) ==
    \/ ChildStart(c)
    \/ RecvHeader(c)
    \/ RecvPayload(c)
    \/ serveOpen(c)
    \/ serveClose(c)
    \/ serveWrite(c)
    \/ serveRead(c)
    \/ serveLseek(c)
    \/ serveStat(c)
    \/ serveUnlink(c)
    \/ serveGetdirentries(c)
    \/ serveGetdirtree(c)
    \/ serveUndefined(c)

Next == Listener \/ \E c \in Conns : Client(c) \/ Handler(c)

Spec == Init /\ [][Next]_vars

\* the server when allocations may fail (in Spec every malloc succeeds)
MemNext == Next \/ \E c \in Conns : OutOfMemory(c) \/ serveWriteNull(c)

MemSpec == Init /\ [][MemNext]_vars

\* the server with clients that send write requests with long payloads,
\* which receiveAll reads with several recv calls
LongClient(c) ==
    \/ Connect(c)
    \/ \E f \in LongWrites : ClientSend(c, f, Len(f))
    \/ ClientClose(c)

WriteHandler(c) ==
    \/ ChildStart(c)
    \/ RecvHeader(c)
    \/ RecvPayload(c)
    \/ serveWrite(c)

RecvNext == Listener \/ \E c \in Conns : LongClient(c) \/ WriteHandler(c)

RecvSpec == Init /\ [][RecvNext]_vars

\* the server with clients that open files and close the descriptor that has
\* the number of the session socket
CloseClient(c) ==
    \/ Connect(c)
    \/ \E f \in CloseRequests : ClientSend(c, f, Len(f))
    \/ ClientClose(c)

CloseHandler(c) ==
    \/ ChildStart(c)
    \/ RecvHeader(c)
    \/ RecvPayload(c)
    \/ serveOpen(c)
    \/ serveClose(c)

CloseNext == Listener \/ \E c \in Conns : CloseClient(c) \/ CloseHandler(c)

CloseSpec == Init /\ [][CloseNext]_vars

\* the server with clients whose frames announce their payload correctly but
\* carry less than the operation takes from it
ShortClient(c) ==
    \/ Connect(c)
    \/ \E f \in ShortRequests : ClientSend(c, f, Len(f))
    \/ ClientClose(c)

ShortHandler(c) ==
    \/ ChildStart(c)
    \/ RecvHeader(c)
    \/ RecvPayload(c)
    \/ serveOpen(c)
    \/ serveClose(c)
    \/ serveWrite(c)

ShortNext == Listener \/ \E c \in Conns : ShortClient(c) \/ ShortHandler(c)

ShortSpec == Init /\ [][ShortNext]_vars

\* the server with sessions alive at the same time: the clients send whole
\* frames, which the transport delivers whole
ConcInit == Boot(MaxFrag) /\ NoTree

ConcNext ==
    \/ Listener
    \/ \E c \in Conns :
          \/ ConnectAny(c)
          \/ \E f \in Requests : ClientSend(c, f, Len(f))
          \/ ClientClose(c)
          \/ Handler(c)

ConcSpec == ConcInit /\ [][ConcNext]_vars

(***************************************************************************)
(* serializeTree taken alone, and the client's decoding of its result.     *)
(***************************************************************************)
RECURSIVE ParseNode(_, _)
\* the node read from position pos of the bytes b, and the position after it:
\* name_len, num_children, the name, then the children in order
ParseNode(b, pos) ==
    LET n == Int32(Rd(b, pos - 1, IntSize, 0))
        k == Int32(Rd(b, pos - 1 + IntSize, IntSize, 0))
        nm == SubSeq(b, pos + IntSize * 2, pos + IntSize * 2 + n - 1)
        RECURSIVE Children(_, _, _)
        Children(acc, q, i) ==
            IF i > k THEN [node |-> Node(nm, acc), next |-> q]
            ELSE LET r == ParseNode(b, q)
                 IN Children(Append(acc, r.node), r.next, i + 1)
    IN Children(<<>>, pos + IntSize * 2 + n, 1)

deserialize(b) == ParseNode(b, 1).node

\* serializeTree(dirtree) is called. When a write went past the end of its
\* buffer the behaviour is undefined: the process is killed (the allocator
\* finds its heap damaged), or the call returns, with the bytes that were
\* written outside the buffer as they were written or replaced by what the
\* next user of that memory put there
CallSerializeTree ==
    /\ tpc = "call"
    /\ LET s == serializeTree(dirtree)
       IN \/ /\ tpc' = "returned"
             /\ rval' = s.tmp
          \/ /\ s.lost # {}
             /\ \/ tpc' = "killed" /\ rval' = <<>>
                \/ /\ tpc' = "returned"
                   /\ \E v \in StaleBytes :
                         rval' = [i \in DOMAIN s.tmp |-> IF i \in s.lost THEN v ELSE s.tmp[i]]
    /\ UNCHANGED <<dirtree, decoded, oom, lvars, cvars, pvars, rvars, svars>>

\* the client decodes the bytes of the reply
Deserialize ==
    /\ tpc = "returned"
    /\ tpc' = "decoded"
    /\ decoded' = deserialize(rval)
    /\ UNCHANGED <<dirtree, rval, oom, lvars, cvars, pvars, rvars, svars>>

TreeInit ==
    /\ Boot(0)
    /\ dirtree \in TreeInputs
    /\ tpc = "call" /\ rval = <<>> /\ decoded = Leaf(<<>>)

TreeNext == CallSerializeTree \/ Deserialize

TreeSpec == TreeInit /\ [][TreeNext]_vars

\* every process that can take a step eventually takes one
FairSpec == Spec /\ WF_vars(Listener) /\ \A c \in Conns : WF_vars(Handler(c))

\* the listener with concurrent sessions whose clients only open a file (or
\* send nothing, or close): what the other operations do is of no concern to
\* when connections are accepted
OpenClient(c) ==
    \/ ConnectAny(c)
    \/ ClientSend(c, OpenReq(0, 0, <<97>>), Len(OpenReq(0, 0, <<97>>)))
    \/ ClientClose(c)

OpenHandler(c) ==
    \/ ChildStart(c)
    \/ RecvHeader(c)
    \/ RecvPayload(c)
    \/ serveOpen(c)

AcceptNext == Listener \/ \E c \in Conns : OpenClient(c) \/ OpenHandler(c)

AcceptSpec ==
    /\ ConcInit /\ [][AcceptNext]_vars
    /\ WF_vars(Listener) /\ \A c \in Conns : WF_vars(OpenHandler(c))

(***************************************************************************)
(* The replies as a client reads them.                                     *)
(***************************************************************************)
\* the handler of connection c has answered a request of operation op and is
\* back in main's loop
Served(c, op) == pc[c] = "header" /\ reply[c] # <<>> /\ fID[c] = op

\* the reply_len field of a frame
ReplyLen(r) == Int32(Take(r, IntSize))
\* the result and the data of a read or getdirentries reply
LongResult(r) == Int64(SubSeq(r, IntSize + 1, IntSize + LongSize))
ReplyData(r) == Drop(r, IntSize + LongSize + IntSize)
\* the result and the err_code of a reply to operation op: open, close, stat
\* and unlink carry an int result, write, read, lseek and getdirentries a
\* long one; a field the frame is too short for reads as 0
ReplyResult(op, r) ==
    IF op \in {0, 1, 5, 6} THEN Int32(Rd(r, IntSize, IntSize, 0))
    ELSE Int64(Rd(r, IntSize, LongSize, 0))
ReplyErr(op, r) ==
    IF op \in {0, 1, 5, 6} THEN Int32(Rd(r, IntSize * 2, IntSize, 0))
    ELSE Int32(Rd(r, IntSize + LongSize, IntSize, 0))

\* the err_code of any reply: a getdirtree reply has it after the result when
\* it carries no tree and after tree_len when it carries one
ReplyErrno(op, r) ==
    IF op # 8 THEN ReplyErr(op, r)
    ELSE IF Len(r) = IntSize * 3 THEN Int32(Rd(r, IntSize * 2, IntSize, 0))
    ELSE Int32(Rd(r, IntSize * 2 + LongSize, IntSize, 0))

\* the request the handler of connection c is dispatching is, bytes for
\* bytes, the frame the client sent in that position on the connection
WellFormed(c) ==
    /\ pc[c] = "dispatch"
    /\ nhdr[c] \in 1..Len(sentLog[c])
    /\ sentLog[c][nhdr[c]] = Frame(fID[c], buf[c])

\* the step makes the local call of the operation being dispatched on
\* connection c and does not hand a reply with a result >= 0 to send: the
\* local call returned -1
CallFails(c) ==
    /\ pc[c] = "dispatch" /\ fID[c] \in 0..7
    /\ nfsop'[c] = nfsop[c] + 1
    /\ ~(reply'[c] # <<>> /\ ReplyResult(fID[c], reply'[c]) >= 0)

(***************************************************************************)
(* Properties.                                                             *)
(***************************************************************************)
\* C2: in every frame the server hands to send, whatever the operation and
\* its outcome, the int32 in the first 4 bytes is the number of bytes handed
\* to send minus 4
C2_ReplyLenIsSizeMinus4 ==
    \A c \in Conns : reply[c] # <<>> => ReplyLen(reply[c]) = Len(reply[c]) - IntSize

\* a getdirtree reply that carries a tree has been sent
C2_Witness ==
    \E c \in Conns : Served(c, 8) /\ Len(reply[c]) > IntSize * 3 + LongSize + 1

\* C5: the data of a read reply are the first result bytes the local read
\* left in the scratch buffer when result >= 0, and empty when result = -1,
\* whatever nbyte the request asked for
C5_ReadDataIsResultBytes ==
    \A c \in Conns :
        Served(c, 3) =>
            LET res == LongResult(reply[c])
            IN /\ res >= -1 /\ res # Huge
               /\ ReplyData(reply[c]) = IF res = -1 THEN <<>> ELSE FileBytes(res)

\* a read that returned fewer bytes than the nbyte = 2 asked for has been answered
C5_Witness ==
    \E c \in Conns : Served(c, 3) /\ LongResult(reply[c]) = 1 /\ Len(buf[c]) = IntSize + LongSize

\* C6: when the header read finds the peer closed (recv returns 0), the
\* handler ends with status 0, having sent nothing in that step and with its
\* session socket closed, and the listener is untouched: it keeps its place
\* in the accept loop and its listening socket
C6_EofEndsSessionCleanly ==
    [][\A c \in Conns :
         (pc[c] = "header" /\ sessfd[c] \in fds[c] /\ link[c] = "closed" /\ inbuf[c] = <<>>
            /\ pc'[c] # "header")
         => /\ pc'[c] = "exited" /\ status'[c] = 0
            /\ nreply'[c] = nreply[c] /\ nfsop'[c] = nfsop[c]
            /\ sessfd[c] \notin fds'[c]
            /\ lvars' = lvars /\ ListenFd \in lfds']_vars

\* the first session ended on a closed peer before any request, and the
\* listener accepted a later connection whose request was answered
C6_Witness ==
    /\ MaxConn >= 2
    /\ pc[1] = "exited" /\ status[1] = 0 /\ nhdr[1] = 0
    /\ pc[2] = "header" /\ nreply[2] = 1 /\ ListenFd \in lfds

\* C7: a request dispatched with an op_id outside 0..8 ends the session with
\* no frame handed to send and no filesystem call made, and a session that
\* ended serves nothing more
C7_UnknownOpEndsSession ==
    [][\A c \in Conns :
         /\ (pc[c] = "dispatch" /\ fID[c] \notin 0..8 /\ pc'[c] # "dispatch")
            => /\ pc'[c] = "exited" /\ status'[c] = 0
               /\ nreply'[c] = nreply[c] /\ nfsop'[c] = nfsop[c] /\ ndisp'[c] = ndisp[c]
         /\ pc[c] = "exited"
            => /\ pc'[c] = "exited"
               /\ nreply'[c] = nreply[c] /\ nfsop'[c] = nfsop[c] /\ ndisp'[c] = ndisp[c]]_vars

\* a session ended with status 0 after a header that led to no operation,
\* having answered a request before
C7_Witness ==
    \E c \in Conns :
        /\ pc[c] = "exited" /\ status[c] = 0
        /\ nhdr[c] = ndisp[c] + 1 /\ nreply[c] = 1 /\ nfsop[c] = 1

\* C1: the dispatch of a complete request frame with an op_id in 0..8 hands
\* exactly one reply frame to send, whatever the outcome of the local call,
\* and nothing is sent by any other step: the reply precedes the read of the
\* next header
C1_OneReplyPerRequest ==
    [][\A c \in Conns :
         /\ (WellFormed(c) /\ fID[c] \in 0..8 /\ pc'[c] # "dispatch")
            => nreply'[c] = nreply[c] + 1 /\ reply'[c] # <<>>
         /\ nreply'[c] # nreply[c] => pc[c] = "dispatch"]_vars

\* a handler ended on SIGSEGV after a local call it never answered
C1_Unanswered ==
    \E c \in Conns : pc[c] = "exited" /\ status[c] = 128 + SIGSEGV /\ nfsop[c] = nreply[c] + 1

\* C3: when the local call of open, close, write, read, lseek, stat, unlink
\* or getdirentries, made for a request frame as the client sent it, returns
\* -1 on a connection that is not reset, the reply
\* carries result -1 and the error number and the handler is back at the
\* header read of the same session
C3_OperationErrorKeepsSession ==
    [][\A c \in Conns :
         (WellFormed(c) /\ CallFails(c) /\ link[c] # "reset")
         => /\ pc'[c] = "header"
            /\ ReplyResult(fID[c], reply'[c]) = -1
            /\ ReplyErr(fID[c], reply'[c]) = errno'[c] /\ errno'[c] > 0]_vars

\* a session that had answered a request ended on SIGSEGV in a later local call
C3_SessionLost ==
    \E c \in Conns :
        /\ pc[c] = "exited" /\ status[c] = 128 + SIGSEGV
        /\ nreply[c] = 1 /\ nfsop[c] = 2 /\ link[c] = "gone"

\* C4: a getdirentries request frame as the client sent it, whose local call
\* fails, is answered with reply_len 12, result -1, the error number and no
\* data byte
C4_GetdirentriesFailureReply ==
    [][\A c \in Conns :
         (WellFormed(c) /\ CallFails(c) /\ fID[c] = 7)
         => reply'[c] = LE(LongSize + IntSize, IntSize) \o LE(-1, LongSize)
                          \o LE(errno'[c], IntSize)]_vars

\* a failed getdirentries was answered with a frame one byte short of
\* result and err_code
C4_ShortFrame ==
    \E c \in Conns : Served(c, 7) /\ Len(reply[c]) = LongSize + IntSize * 2 - 1

\* the handler of connection c waits in receiveAll for payload bytes of a
\* peer that has closed
Truncated(c) ==
    /\ pc[c] = "payload" /\ Len(buf[c]) < bufSize[c]
    /\ link[c] = "closed" /\ inbuf[c] = <<>> /\ sessfd[c] \in fds[c]

\* C8: when the peer closes after a header announcing a payload and before
\* the payload has arrived, the session eventually ends
C8_TruncatedPayloadEnds ==
    \A c \in Conns : Truncated(c) ~> pc[c] = "exited"

\* receiveAll has gone round its loop on a recv that returned 0
C8_Spinning ==
    \E c \in Conns : Truncated(c) /\ nzero[c] = 1

\* C9: whatever the way the transport delivers the bytes, the op_id and
\* payload_len the handler decodes for its k-th header are those of the
\* k-th frame the client sent, and the payload it dispatches is that
\* frame's payload
C9_HeaderAsSent ==
    \A c \in Conns :
        (pc[c] \in {"payload", "dispatch"} /\ nhdr[c] \in 1..Len(sentLog[c]))
        => LET f == sentLog[c][nhdr[c]]
           IN /\ fID[c] = FrameOp(f)
              /\ bufSize[c] = FrameLen(f)
              /\ pc[c] = "dispatch" => buf[c] = FramePayload(f)

\* the handler dispatches the first frame of a session, sent whole, with a
\* payload that is not the frame's
C9_WrongPayload ==
    \E c \in Conns :
        /\ pc[c] = "dispatch" /\ nhdr[c] = 1 /\ Len(sentLog[c]) >= 1
        /\ buf[c] # FramePayload(sentLog[c][1])

\* C10: the handler is back at the header read after a reply only when send
\* has written the whole reply frame
C10_HeaderOnlyAfterFullWrite ==
    \A c \in Conns :
        (pc[c] = "header" /\ reply[c] # <<>>) => sendrv[c] = Len(reply[c])

\* the handler is back at the header read after a send that wrote a part of
\* the reply
C10_PartialWrite ==
    \E c \in Conns :
        pc[c] = "header" /\ reply[c] # <<>> /\ 0 < sendrv[c] /\ sendrv[c] < Len(reply[c])

\* C11: the err_code of every reply is the error number as it stood when
\* the operation's local call returned
C11_ErrnoCapturedAtReturn ==
    \A c \in Conns :
        (pc[c] = "header" /\ reply[c] # <<>>)
        => ReplyErrno(fID[c], reply[c]) = callerrno[c]

\* a failed open was answered with ENOMEM, left by the malloc of the reply
\* buffer, in place of the ENOENT open had set
C11_Overwritten ==
    \E c \in Conns :
        /\ Served(c, 0) /\ ReplyResult(0, reply[c]) = -1
        /\ callerrno[c] = ENOENT /\ ReplyErrno(0, reply[c]) = ENOMEM

\* the handler of connection c is running
Live(c) == pc[c] \in {"header", "payload", "dispatch"}

\* the descriptor argument of the close, write, read or lseek request being
\* dispatched on connection c
FdArg(c) == Int32(Rd(buf[c], 0, IntSize, 0))

C13_DescriptorsReleased ==
    \A c \in Conns :
        pc[c] = "exited"
        => /\ fds[c] = {}
           /\ lfds \ (0..2) \subseteq DOMAIN lsocks

\* one session ended on end of file and another on a receive error, each
\* with the file it had opened as descriptor 3 still open
C13_Witness ==
    /\ MaxConn >= 2
    /\ pc[1] = "exited" /\ status[1] = 0 /\ released[1] = {3}
    /\ pc[2] = "exited" /\ status[2] = 1 /\ released[2] = {3}

\* the fields of a getdirtree reply: the result, and tree_len, err_code and
\* the serialized bytes of one that carries a tree
TreeResult(r) == Int32(Rd(r, IntSize, IntSize, 0))
TreeLen(r) == Int64(Rd(r, IntSize * 2, LongSize, 0))
TreeErr(r) == Int32(Rd(r, IntSize * 2 + LongSize, IntSize, 0))
TreeBytes(r) == SubSeq(r, IntSize * 3 + LongSize + 1, Len(r) - 1)

\* C14: a getdirtree reply is either reply_len = 8, result = 1, err_code and
\* nothing else, or reply_len, result = 0, tree_len, err_code, tree_len bytes
\* that are the serialization of the tree, and one zero byte
C14_GetdirtreeReplyShapes ==
    \A c \in Conns :
        Served(c, 8)
        => LET r == reply[c]
           IN /\ ReplyLen(r) = Len(r) - IntSize
              /\ \/ /\ Len(r) = IntSize * 3
                    /\ TreeResult(r) = 1
                    /\ Int32(Rd(r, IntSize * 2, IntSize, 0)) = ENOENT
                 \/ /\ TreeLen(r) = Len(r) - (IntSize * 3 + LongSize + 1)
                    /\ TreeResult(r) = 0
                    /\ TreeErr(r) \in {0, ENOENT, EBADF, ENOMEM}
                    /\ \E t \in Trees : TreeBytes(r) = serializeTree(t).tmp
                    /\ TreeLen(r) = Len(TreeBytes(r))
                    /\ r[Len(r)] = 0

\* a session's second getdirtree has been answered with the tree that has
\* subdirectories
C14_Witness ==
    \E c \in Conns :
        /\ Served(c, 8) /\ nreply[c] = 2
        /\ TreeResult(reply[c]) = 0 /\ TreeLen(reply[c]) > LongSize + 1

\* the sum over the nodes of t of 8 + name_len
RECURSIVE TreeSize(_)
TreeSize(t) ==
    LET RECURSIVE Sum(_)
        Sum(i) == IF i > Len(t.subdirs) THEN 0 ELSE TreeSize(t.subdirs[i]) + Sum(i + 1)
    IN IntSize * 2 + Len(t.name) + Sum(1)

\* C15: for every tree, serializeTree returns, its result has the length of
\* the sum over the nodes of 8 + name_len, and decoding it as name_len,
\* num_children, name, children in order gives the tree back
C15_SerializeTreeRoundTrip ==
    /\ tpc # "killed"
    /\ tpc \in {"returned", "decoded"} => Len(rval) = TreeSize(dirtree)
    /\ tpc = "decoded" => decoded = dirtree

\* a directory with entries whose own encoding is longer than MAXMSGLEN was
\* serialized, and what the client decoded is another tree
C15_Mangled ==
    /\ tpc = "decoded"
    /\ Len(dirtree.subdirs) > 0
    /\ IntSize * 2 + Len(dirtree.name) > MAXMSGLEN
    /\ decoded # dirtree

Holds(tbl) == {tbl[x] : x \in DOMAIN tbl}

\* C17: the listener back in accept holds no session socket; a handler in
\* its serve loop holds no listening socket; and no handler ever holds the
\* session socket of another connection
C17_ExclusiveOwnership ==
    /\ lpc = "accept" => Holds(lsocks) = {0}
    /\ \A c \in Conns :
          /\ Live(c) => Holds(socks[c]) \subseteq {c}
          /\ Holds(socks[c]) \subseteq {0, c}

\* two sessions are being served and the listener is back in accept: each
\* handler holds its own session socket, as descriptor 4, and nothing else
C17_Witness ==
    /\ MaxConn >= 2
    /\ lpc = "accept"
    /\ Live(1) /\ Holds(socks[1]) = {1} /\ sessfd[1] \in DOMAIN socks[1]
    /\ Live(2) /\ Holds(socks[2]) = {2} /\ sessfd[2] \in DOMAIN socks[2]
    /\ sessfd[1] = sessfd[2]

\* C18: every handler process that has terminated is eventually reaped by
\* the listener
C18_ChildrenReaped ==
    \A c \in Conns : pc[c] = "exited" ~> c \notin zombies

\* every session has finished, the listener is back in accept, and every
\* handler process is still waiting to be reaped
C18_Zombies ==
    /\ lpc = "accept"
    /\ \A c \in Conns : pc[c] = "exited" /\ status[c] = 0
    /\ zombies = Conns

\* C19: when an allocation fails in the handler of a request a client sent,
\* the handler ends by err(1, 0) in that step, no reply is sent, and the null
\* pointer is not used
C19_AllocationFailureFatal ==
    [][\A c \in Conns :
         (WellFormed(c) /\ oom'[c] # oom[c])
         => /\ pc'[c] = "exited" /\ status'[c] = 1
            /\ nreply'[c] = nreply[c]
            /\ oom'[c] = "err"]_vars

\* serveWrite's data buffer could not be allocated and the handler was
\* killed writing the data through the null pointer
C19_NullUsed ==
    \E c \in Conns :
        /\ oom[c] = "used"
        /\ pc[c] = "exited" /\ status[c] = 128 + SIGSEGV
        /\ nfsop[c] = 0 /\ nhdr[c] = 1 /\ nfrag = 0

\* the frames in fs one after the other
RECURSIVE Flat(_)
Flat(fs) == IF fs = <<>> THEN <<>> ELSE Head(fs) \o Flat(Tail(fs))

\* C20: while receiveAll runs, the size of its next recv is at most
\* min(MAXMSGLEN, bufSize - currlen) and currlen is below bufSize; it ends
\* with currlen = bufSize; and when it has read the payload of a frame every
\* frame the client sent after that one is still in flight, whole
C20_ReceiveAllNeverOverReads ==
    \A c \in Conns :
        /\ pc[c] = "payload"
           => /\ Len(buf[c]) < bufSize[c]
              /\ maxSize[c] <= Min(MAXMSGLEN, bufSize[c] - Len(buf[c]))
        /\ (pc[c] = "dispatch" /\ bufSize[c] >= 0) => Len(buf[c]) = bufSize[c]
        /\ WellFormed(c)
           => inbuf[c] = Flat(SubSeq(sentLog[c], nhdr[c] + 1, Len(sentLog[c])))

\* a payload longer than twice MAXMSGLEN has been read, one recv having
\* returned less than was asked for, and the next frame is in flight
C20_Witness ==
    \E c \in Conns :
        /\ WellFormed(c) /\ bufSize[c] > 2 * MAXMSGLEN
        /\ nfrag = 1 /\ nhdr[c] = 1
        /\ Len(sentLog[c]) = 2 /\ inbuf[c] = sentLog[c][2]

\* C21: in a call of serializeTree that has been made, no byte was written
\* past the end of the buffer it went to
C21_WritesWithinCapacity ==
    tpc # "call" => serializeTree(dirtree).lost = {}

\* serializeTree has returned for a directory with entries whose own
\* encoding is one byte longer than MAXMSGLEN: that byte, the last of the
\* name, was written after the end of the first buffer
C21_Overflow ==
    /\ tpc = "returned"
    /\ Len(dirtree.subdirs) > 0
    /\ Len(serializaTreeNode(dirtree)) = MAXMSGLEN + 1
    /\ serializeTree(dirtree).lost = {MAXMSGLEN + 1}

\* C22: when a handler has executed a request as the client sent it, on a
\* connection that is up, and goes on serving, its session socket is still
\* open and the whole reply was sent
C22_ConnectionKept ==
    [][\A c \in Conns :
         (WellFormed(c) /\ link[c] = "up" /\ pc'[c] = "header")
         => /\ SessOpen(c, fds[c])' \* the socket survives the request
            /\ sendrv'[c] = Len(reply'[c])]_vars

\* the handler has executed close(4) for its client: the close succeeded,
\* the session socket is gone and the reply could not be sent, on a
\* connection that is up
C22_ConnectionLost ==
    \E c \in Conns :
        /\ Served(c, 1) /\ ReplyResult(1, reply[c]) = 0
        /\ link[c] = "up" /\ sessfd[c] = SessionFd
        /\ ~SessOpen(c, fds[c]) /\ sendrv[c] = -1

\* C23: the handler of a request, executed on the frame as the client sent
\* it (header and payload), reads no byte of the payload buffer at or after
\* the payload_len the header announced
C23_ReadsWithinPayload ==
    [][\A c \in Conns :
         (WellFormed(c) /\ bufSize[c] = Len(buf[c]) /\ pc'[c] # "dispatch")
         => ReadEnd(fID[c], buf[c]) <= bufSize[c]]_vars

\* a close request without payload has been answered: serveClose took its
\* four bytes of fd from a buffer of none
C23_ReadPastPayload ==
    \E c \in Conns :
        /\ Served(c, 1) /\ bufSize[c] = 0 /\ buf[c] = <<>>
        /\ nhdr[c] \in 1..Len(sentLog[c]) /\ sentLog[c][nhdr[c]] = Frame(1, <<>>)
        /\ ReadEnd(1, buf[c]) > bufSize[c]

=============================================================================
